---- MODULE Spec2Model ----
(***************************************************************************)
(* Circuit gadgets of o1js: the SHA-256 compression gadget with its        *)
(* chunked-decomposition rotation primitive (src/lib/gadgets/sha256.ts)    *)
(* and the native-curve scalar multiplication gadget                       *)
(* (src/lib/provable/gadgets/native-curve.ts).                             *)
(*                                                                         *)
(* Numbers.  TLC's integers are 32-bit, so numbers are little-endian       *)
(* sequences of 16-bit limbs: a 32-bit word is two limbs, and a native     *)
(* field element of the SHA-256 gadget is a two's-complement integer of    *)
(* FieldLimbs limbs.  Every value that gadget forms is a sum of at most    *)
(* 32-bit chunks shifted by at most 31 bits three times over, so its       *)
(* magnitude is below 2^126 while the native modulus exceeds 2^254: the    *)
(* signed integer v stands for the residue v mod p without collision, a    *)
(* negative v being the field element p - |v|, which is neither below      *)
(* 2^16 nor a 32-bit word.                                                 *)
(***************************************************************************)
EXTENDS Integers, Sequences, FiniteSets, TLC

VARIABLES
    rpc,      \* ROTR3 gadget: "idle" | "done"
    rin,      \* ROTR3 gadget: the call's input (word, rotation amounts, constness)
    rout,     \* ROTR3 gadget: what the call did
    spc,      \* SHA256.hash: "idle" | "load" | "schedule" | "round" | "done" | "threw"
    sin,      \* SHA256.hash: the call's input (message blocks, constness)
    H,        \* SHA256.hash: the running digest H[0..7]
    W,        \* SHA256.hash: the message schedule built so far, W[0..t-1]
    wv,       \* SHA256.hash: the working variables a..h
    blk,      \* SHA256.hash: the block index i, from 1
    t,        \* SHA256.hash: the loop counter t
    ncons,    \* SHA256.hash: constraint-emitting gadget calls so far
    ssat,     \* SHA256.hash: every constraint emitted so far is satisfied
    cpc,      \* curve gadgets: "idle" | "split" | "unpacked" | "walk" | "done" | "added"
    cin,      \* curve gadgets: the call's input (points, scalar, constness)
    tsc,      \* curve gadgets: the ShiftedScalar of the scalar
    R,        \* scaleShiftedSplit5: the accumulator R
    bitno,    \* scaleShiftedSplit5: the low bit the next step consumes
    nzfail,   \* scaleShiftedSplit5: an addNonZero assertion has failed
    aout,     \* add: the result and isInfinity of the last call
    kpc,      \* rangeCheckNSmall: "idle" | "picked" | "done"
    kin,      \* rangeCheckNSmall: the call's input (field element, width)
    kout,     \* rangeCheckNSmall: what the call did
    mpc,      \* circuitMain: "idle" | "declared" | "decorated" | "running" | "ran"
    paramTypes,        \* circuitMain: the declared parameter types
    tpublic,           \* target._public: the indices public_ pushed, in order
    publicIndexSet,    \* circuitMain: the Set, in its iteration order
    witnessIndexSet,   \* circuitMain: the Set, in its iteration order
    snarkyPublicTyp,   \* the component types of target.snarkyPublicTyp
    snarkyWitnessTyp,  \* the component types of target.snarkyWitnessTyp
    mi,       \* snarkyMain: the loop counter i
    mw,       \* snarkyMain: the witness list w, what is left of it
    mpub,     \* snarkyMain: the public list pub, what is left of it
    margs     \* snarkyMain: args

rvars == <<rpc, rin, rout>>
svars == <<spc, sin, H, W, wv, blk, t, ncons, ssat>>
cvars == <<cpc, cin, tsc, R, bitno, nzfail, aout>>
kvars == <<kpc, kin, kout>>
mvars == <<mpc, paramTypes, tpublic, publicIndexSet, witnessIndexSet,
           snarkyPublicTyp, snarkyWitnessTyp, mi, mw, mpub, margs>>
vars == <<rvars, svars, cvars, kvars, mvars>>

----------------------------------------------------------------------------
(* Limb arithmetic *)

WordSize == 32
RangeCheckBits == 16
Base == 2 ^ RangeCheckBits
WordLimbs == WordSize \div RangeCheckBits
FieldLimbs == 4 * WordLimbs

\* the word hi * 2^16 + lo
Wd(hi, lo) == <<lo, hi>>

\* UInt32.value: the field element of a word
ToField(w) == [j \in 1..FieldLimbs |-> IF j <= WordLimbs THEN w[j] ELSE 0]

\* the low 32 bits of a field element
LowWord(v) == <<v[1], v[2]>>

FZero == [j \in 1..FieldLimbs |-> 0]

RECURSIVE AddFrom(_, _, _, _)
AddFrom(a, b, j, c) ==
    IF j > FieldLimbs THEN <<>>
    ELSE <<(a[j] + b[j] + c) % Base>>
         \o AddFrom(a, b, j + 1, (a[j] + b[j] + c) \div Base)

\* Field.add on the integers the limbs stand for
FAdd(a, b) == AddFrom(a, b, 1, 0)

FNeg(a) == AddFrom([j \in 1..FieldLimbs |-> Base - 1 - a[j]], FZero, 1, 1)

\* a * 2^k, for 0 <= k < 32
FShiftLeft(a, k) ==
    LET q == k \div RangeCheckBits
        m == 2 ^ (k % RangeCheckBits)
        L(j) == IF j >= 1 THEN a[j] ELSE 0
    IN  [j \in 1..FieldLimbs |->
            ((L(j - q) * m) % Base) + ((L(j - q - 1) * m) \div Base)]

\* JavaScript's 32-bit `1 << k`: the shift count is taken mod 32, and the
\* result is a signed 32-bit integer, so 1 << 31 is -2^31 and 1 << 32 is 1
Shl(k) == [neg |-> (k % 32) = 31, exp |-> k % 32]

\* Field.mul by the JavaScript number c = 1 << k
FMul(a, c) ==
    IF c.neg THEN FNeg(FShiftLeft(a, c.exp)) ELSE FShiftLeft(a, c.exp)

\* x.rangeCheckHelper(16).assertEquals(x): 0 <= x < 2^16
IsBelow2To16(a) == \A j \in 2..FieldLimbs : a[j] = 0

\* x >> n on a 32-bit word
ShiftRight32(w, n) ==
    LET m == 2 ^ (n % RangeCheckBits)
    IN  IF n >= WordSize THEN <<0, 0>>
        ELSE IF n >= RangeCheckBits THEN <<w[2] \div m, 0>>
        ELSE <<(w[1] \div m) + (w[2] % m) * (Base \div m), w[2] \div m>>

\* (x << n) mod 2^32 on a 32-bit word
ShiftLeft32(w, n) ==
    LET m == 2 ^ (n % RangeCheckBits)
    IN  IF n >= WordSize THEN <<0, 0>>
        ELSE IF n >= RangeCheckBits THEN <<0, (w[1] * m) % Base>>
        ELSE <<(w[1] * m) % Base, ((w[2] * m) % Base) + ((w[1] * m) \div Base)>>

\* x mod 2^n on a 32-bit word
Mask32(w, n) ==
    IF n >= WordSize THEN w
    ELSE IF n >= RangeCheckBits THEN <<w[1], w[2] % (2 ^ (n - RangeCheckBits))>>
    ELSE <<w[1] % (2 ^ n), 0>>

\* common.js bitSlice(x, start, length) = (x >> start) & ((1n << length) - 1n);
\* a negative length makes the BigInt mask -1n, which keeps every bit
bitSlice(w, start, length) ==
    ToField(IF length < 0 THEN ShiftRight32(w, start)
            ELSE Mask32(ShiftRight32(w, start), length))

\* direct bit rotation of a 32-bit word to the right:
\* (x >> n) | (x << (32 - n)), the two parts sharing no bit
rotr(w, n) ==
    <<ShiftRight32(w, n)[1] + ShiftLeft32(w, WordSize - n)[1],
      ShiftRight32(w, n)[2] + ShiftLeft32(w, WordSize - n)[2]>>

\* UInt32.rotate(n, 'right')
ROTR(n, w) == rotr(w, n)

\* UInt32.rightShift(n)
SHR(n, w) == ShiftRight32(w, n)

----------------------------------------------------------------------------
(* rangeCheckNSmall and ROTR3 *)

\* the constraints of rangeCheckNSmall(x, n), for n <= 16
rangeCheckNSmall(a, n) ==
    /\ IsBelow2To16(a)
    /\ (n = RangeCheckBits \/ IsBelow2To16(FMul(a, Shl(RangeCheckBits - n))))

\* how many assertEquals constraints rangeCheckNSmall(x, n) emits
rangeCheckCount(n) == IF n = RangeCheckBits THEN 1 ELSE 2

ROTR3Simple(u, bits) ==
    <<ToField(ROTR(bits[1], u)), ToField(ROTR(bits[2], u)), ToField(ROTR(bits[3], u))>>

\* the chunk widths d0..d3 of ROTR3
Widths(bits) ==
    <<bits[1], bits[2] - bits[1], bits[3] - bits[2], WordSize - bits[3]>>

\* the witness of exists(4, ...): the four bit slices of x
Chunks(u, bits) ==
    LET d == Widths(bits)
    IN  <<bitSlice(u, 0, d[1]), bitSlice(u, bits[1], d[2]),
          bitSlice(u, bits[2], d[3]), bitSlice(u, bits[3], d[4])>>

\* the assertion of ROTR3 that throws first while the circuit is built, as
\* the number of constraints emitted before it (-1: none throws)
ThrowsAfter(bits) ==
    LET d == Widths(bits)
    IN  IF d[1] > RangeCheckBits THEN 0
        ELSE IF d[2] > RangeCheckBits THEN rangeCheckCount(d[1])
        ELSE IF d[3] > RangeCheckBits
             THEN rangeCheckCount(d[1]) + rangeCheckCount(d[2])
        ELSE IF d[4] > RangeCheckBits
             THEN rangeCheckCount(d[1]) + rangeCheckCount(d[2]) + rangeCheckCount(d[3])
        ELSE -1

\* the variable path of ROTR3 on the word u with the chunk witness c
ROTR3Var(u, bits, c) ==
    LET d == Widths(bits)
        x == ToField(u)
        x23 == FAdd(c[3], FMul(c[4], Shl(d[3])))
        x123 == FAdd(c[2], FMul(x23, Shl(d[2])))
        xRotR0 == FAdd(x123, FMul(c[1], Shl(d[2] + d[3] + d[4])))
        x01 == FAdd(c[1], FMul(c[2], Shl(d[1])))
        xRotR1 == FAdd(x23, FMul(x01, Shl(d[3] + d[4])))
        x012 == FAdd(x01, FMul(c[3], Shl(d[1] + d[2])))
        xRotR2 == FAdd(c[4], FMul(x012, Shl(d[4])))
    IN  IF ThrowsAfter(bits) >= 0
        THEN [threw |-> TRUE, emitted |-> ThrowsAfter(bits), sat |-> FALSE,
              chunks |-> c, out |-> <<>>]
        ELSE [threw |-> FALSE,
              emitted |-> rangeCheckCount(d[1]) + rangeCheckCount(d[2])
                          + rangeCheckCount(d[3]) + 2,
              sat |-> /\ rangeCheckNSmall(c[1], d[1])
                      /\ rangeCheckNSmall(c[2], d[2])
                      /\ rangeCheckNSmall(c[3], d[3])
                      /\ rangeCheckNSmall(c[4], RangeCheckBits)
                      /\ FAdd(c[1], FMul(x123, Shl(d[1]))) = x,
              chunks |-> c,
              out |-> <<xRotR0, xRotR1, xRotR2>>]

\* ROTR3(u, bits) with the honest witness
ROTR3(u, isConst, bits) ==
    IF isConst
    THEN [threw |-> FALSE, emitted |-> 0, sat |-> TRUE, chunks |-> <<>>,
          out |-> ROTR3Simple(u, bits)]
    ELSE ROTR3Var(u, bits, Chunks(u, bits))


----------------------------------------------------------------------------
(* The ROTR3 gadget as a state machine: one call per behaviour step *)

\* sample words: 0, 1, 2^31, 2^32 - 1, H[0], K[0], 0xdeadbeef
SampleWords ==
    <<Wd(0, 0), Wd(0, 1), Wd(\hffff, \hffff), Wd(\h8000, 0),
      Wd(\h6a09, \he667), Wd(\h428a, \h2f98), Wd(\hdead, \hbeef)>>

NumWords == 4

\* the rotation amounts calls are made with: those of SigmaZero and SigmaOne,
\* the extremes, and amounts that make chunks of 16 and of more than 16 bits
RotAmounts == {0, 1, 2, 6, 11, 13, 16, 17, 22, 25, 31}

Triples == {b \in RotAmounts \X RotAmounts \X RotAmounts : TRUE}

IsAscending(bits) == bits[1] < bits[2] /\ bits[2] < bits[3] /\ bits[3] < WordSize

\* the integer n, |n| < 2^16, as a field element
FInt(n) ==
    LET m == IF n < 0 THEN -n ELSE n
        v == [j \in 1..FieldLimbs |-> IF j = 1 THEN m ELSE 0]
    IN  IF n < 0 THEN FNeg(v) ELSE v

\* a prover's chunk witness: the bit slices moved along the solutions of the
\* decomposition equation (a, b, c carry 2^d between neighbouring chunks) and
\* off them (e added to the top chunk)
Tampered(u, bits, a, b, c, e) ==
    LET d == Widths(bits)
        h == Chunks(u, bits)
    IN  <<FAdd(h[1], FMul(FInt(a), Shl(d[1]))),
          FAdd(FAdd(h[2], FInt(-a)), FMul(FInt(b), Shl(d[2]))),
          FAdd(FAdd(h[3], FInt(-b)), FMul(FInt(c), Shl(d[3]))),
          FAdd(h[4], FInt(e - c))>>

NoInput == [u |-> <<>>, bits |-> <<>>, isConst |-> TRUE, honest |-> TRUE]
NoOutput == [threw |-> FALSE, emitted |-> 0, sat |-> TRUE, chunks |-> <<>>,
             out |-> <<>>]

RotrIdle ==
    /\ rpc = "idle"
    /\ rin = NoInput
    /\ rout = NoOutput

\* ROTR3(u, bits), the prover running the witness code of exists
CallROTR3 ==
    /\ rpc = "idle"
    /\ spc = "idle" /\ cpc = "idle" /\ kpc = "idle" /\ mpc = "idle"
    /\ \E k \in 1..NumWords, bits \in Triples, isConst \in BOOLEAN :
          /\ rin' = [u |-> SampleWords[k], bits |-> bits, isConst |-> isConst,
                     honest |-> TRUE]
          /\ rout' = ROTR3(SampleWords[k], isConst, bits)
    /\ rpc' = "done"
    /\ UNCHANGED <<svars, cvars, kvars, mvars>>

\* ROTR3(u, bits) on a variable word, the prover supplying its own chunks;
\* the proof exists only when every constraint is satisfied
CallROTR3Prover ==
    /\ rpc = "idle"
    /\ spc = "idle" /\ cpc = "idle" /\ kpc = "idle" /\ mpc = "idle"
    /\ \E k \in 1..NumWords, bits \in Triples,
          a \in -1..1, b \in -1..1, c \in -1..1, e \in 0..1 :
          /\ IsAscending(bits)
          /\ ThrowsAfter(bits) < 0
          /\ LET r == ROTR3Var(SampleWords[k], bits,
                               Tampered(SampleWords[k], bits, a, b, c, e))
             IN  /\ r.sat
                 /\ rout' = r
          /\ rin' = [u |-> SampleWords[k], bits |-> bits, isConst |-> FALSE,
                     honest |-> (a = 0 /\ b = 0 /\ c = 0 /\ e = 0)]
    /\ rpc' = "done"
    /\ UNCHANGED <<svars, cvars, kvars, mvars>>

ReturnROTR3 ==
    /\ rpc = "done"
    /\ rpc' = "idle"
    /\ rin' = NoInput
    /\ rout' = NoOutput
    /\ UNCHANGED <<svars, cvars, kvars, mvars>>

RotrNext == CallROTR3 \/ CallROTR3Prover \/ ReturnROTR3

----------------------------------------------------------------------------
(* Claims about ROTR3 *)

\* the three rotations of the call's word, by direct bit rotation
Rotations(u, bits) ==
    <<ToField(rotr(u, bits[1])), ToField(rotr(u, bits[2])), ToField(rotr(u, bits[3]))>>

\* C1 (as claimed): for every word and every ascending triple of rotation
\* amounts below 32, ROTR3 with the honest witness, on a constant and on a
\* variable word, builds its circuit without failing and returns the three
\* direct bit rotations.
C1_Rotr3ReturnsRotations ==
    (rpc = "done" /\ rin.honest /\ IsAscending(rin.bits))
        => /\ ~rout.threw
           /\ rout.sat
           /\ rout.out = Rotations(rin.u, rin.bits)

\* C6 (as claimed): a triple of rotation amounts that is not strictly
\* ascending is rejected before any constraint is emitted.
C6_UnsortedAmountsRejected ==
    (rpc = "done" /\ ~IsAscending(rin.bits))
        => (rout.threw /\ rout.emitted = 0)

\* C8 (as claimed): on a variable word, every chunk assignment that
\* satisfies the emitted constraints is the bit slices of the word, and the
\* three outputs are then the three direct bit rotations.
C8_ConstraintsForceRotations ==
    (rpc = "done" /\ ~rin.isConst /\ IsAscending(rin.bits)
        /\ ~rout.threw /\ rout.sat)
        => /\ rout.chunks = Chunks(rin.u, rin.bits)
           /\ rout.out = Rotations(rin.u, rin.bits)

\* the part of C8 the constraints do establish: the chunks are the slices
ChunksAreForced ==
    (rpc = "done" /\ ~rin.isConst /\ IsAscending(rin.bits)
        /\ ~rout.threw /\ rout.sat)
        => rout.chunks = Chunks(rin.u, rin.bits)

\* the triples the variable path supports: chunks of at most 16 bits, and
\* no reassembly weight 1 << 31
IsSupported(bits) ==
    /\ IsAscending(bits)
    /\ ThrowsAfter(bits) < 0
    /\ bits[1] # 1
    /\ bits[2] # 1

\* on the supported triples ROTR3 does return the rotations
SupportedRotateRight ==
    (rpc = "done" /\ rin.honest /\ IsSupported(rin.bits))
        => /\ ~rout.threw
           /\ rout.sat
           /\ rout.out = Rotations(rin.u, rin.bits)

----------------------------------------------------------------------------
(* UInt32 and Gadgets operations used by SHA256.hash *)

RECURSIVE AndBits(_, _, _)
AndBits(a, b, n) ==
    IF n = 0 THEN 0
    ELSE (a % 2) * (b % 2) + 2 * AndBits(a \div 2, b \div 2, n - 1)

RECURSIVE XorBits(_, _, _)
XorBits(a, b, n) ==
    IF n = 0 THEN 0
    ELSE ((a + b) % 2) + 2 * XorBits(a \div 2, b \div 2, n - 1)

\* UInt32.and, UInt32.xor, UInt32.not
and(x, y) == <<AndBits(x[1], y[1], RangeCheckBits), AndBits(x[2], y[2], RangeCheckBits)>>
xor(x, y) == <<XorBits(x[1], y[1], RangeCheckBits), XorBits(x[2], y[2], RangeCheckBits)>>
not(x) == <<Base - 1 - x[1], Base - 1 - x[2]>>

\* Gadgets.divMod32(v).remainder: v mod 2^32
divMod32Remainder(v) == LowWord(v)

\* UInt32.addMod32
addMod32(x, y) == divMod32Remainder(FAdd(ToField(x), ToField(y)))

\* a word is 32 bits when its field element is: UInt32.from(field) checks nothing
IsWord32(v) == \A j \in (WordLimbs + 1)..FieldLimbs : v[j] = 0

----------------------------------------------------------------------------
(* Ch, Maj, SigmaZero, SigmaOne, DeltaZero, DeltaOne *)

Ch(x, y, z) == xor(and(x, y), and(not(x), z))

\* Maj with its last term forgotten
MajWithoutLastTerm(x, y, z) == xor(and(x, y), and(x, z))

Maj(x, y, z) == xor(xor(and(x, y), and(x, z)), and(y, z))

Xor3(r) == xor(xor(LowWord(r[1]), LowWord(r[2])), LowWord(r[3]))

SigmaZeroAmounts == <<2, 13, 22>>
SigmaOneAmounts == <<6, 11, 25>>

SigmaZero(x, isConst) == Xor3(ROTR3(x, isConst, SigmaZeroAmounts).out)

SigmaOne(x, isConst) == Xor3(ROTR3(x, isConst, SigmaOneAmounts).out)

DeltaZero(x) == xor(xor(ROTR(7, x), ROTR(18, x)), SHR(3, x))

DeltaOne(x) == xor(xor(ROTR(17, x), ROTR(19, x)), SHR(10, x))

\* the constraints of a ROTR3 call inside hash hold, and its outputs are words
Rotr3Holds(x, isConst, bits) ==
    LET r == ROTR3(x, isConst, bits)
    IN  r.sat /\ \A k \in 1..3 : IsWord32(r.out[k])

\* constraint-emitting gadget calls: DeltaZero and DeltaOne make two rotations,
\* a shift and two xors; Ch an and, a not, an and, a xor; Maj three ands and
\* two xors; SigmaZero and SigmaOne the constraints of ROTR3 and two xors
DeltaCalls == 5
ChCalls == 4
MajCalls == 5
SigmaCalls(bits) == ROTR3(Wd(0, 0), FALSE, bits).emitted + 2

----------------------------------------------------------------------------
(* SHA256.hash *)

\* constants K of section 4.2.2
K ==
    <<
      Wd(\h428a, \h2f98), Wd(\h7137, \h4491), Wd(\hb5c0, \hfbcf), Wd(\he9b5, \hdba5),
      Wd(\h3956, \hc25b), Wd(\h59f1, \h11f1), Wd(\h923f, \h82a4), Wd(\hab1c, \h5ed5),
      Wd(\hd807, \haa98), Wd(\h1283, \h5b01), Wd(\h2431, \h85be), Wd(\h550c, \h7dc3),
      Wd(\h72be, \h5d74), Wd(\h80de, \hb1fe), Wd(\h9bdc, \h06a7), Wd(\hc19b, \hf174),
      Wd(\he49b, \h69c1), Wd(\hefbe, \h4786), Wd(\h0fc1, \h9dc6), Wd(\h240c, \ha1cc),
      Wd(\h2de9, \h2c6f), Wd(\h4a74, \h84aa), Wd(\h5cb0, \ha9dc), Wd(\h76f9, \h88da),
      Wd(\h983e, \h5152), Wd(\ha831, \hc66d), Wd(\hb003, \h27c8), Wd(\hbf59, \h7fc7),
      Wd(\hc6e0, \h0bf3), Wd(\hd5a7, \h9147), Wd(\h06ca, \h6351), Wd(\h1429, \h2967),
      Wd(\h27b7, \h0a85), Wd(\h2e1b, \h2138), Wd(\h4d2c, \h6dfc), Wd(\h5338, \h0d13),
      Wd(\h650a, \h7354), Wd(\h766a, \h0abb), Wd(\h81c2, \hc92e), Wd(\h9272, \h2c85),
      Wd(\ha2bf, \he8a1), Wd(\ha81a, \h664b), Wd(\hc24b, \h8b70), Wd(\hc76c, \h51a3),
      Wd(\hd192, \he819), Wd(\hd699, \h0624), Wd(\hf40e, \h3585), Wd(\h106a, \ha070),
      Wd(\h19a4, \hc116), Wd(\h1e37, \h6c08), Wd(\h2748, \h774c), Wd(\h34b0, \hbcb5),
      Wd(\h391c, \h0cb3), Wd(\h4ed8, \haa4a), Wd(\h5b9c, \hca4f), Wd(\h682e, \h6ff3),
      Wd(\h748f, \h82ee), Wd(\h78a5, \h636f), Wd(\h84c8, \h7814), Wd(\h8cc7, \h0208),
      Wd(\h90be, \hfffa), Wd(\ha450, \h6ceb), Wd(\hbef9, \ha3f7), Wd(\hc671, \h78f2)
    >>

\* initial hash values of section 5.3.3
InitialH ==
    <<
      Wd(\h6a09, \he667), Wd(\hbb67, \hae85), Wd(\h3c6e, \hf372), Wd(\ha54f, \hf53a),
      Wd(\h510e, \h527f), Wd(\h9b05, \h688c), Wd(\h1f83, \hd9ab), Wd(\h5be0, \hcd19)
    >>

\* the messages hash is called with, as 16-word blocks:
\*   1. the padded message "abc" (FIPS 180-4 example)
\*   2. the padded empty message
\*   3. the padded 448-bit message of FIPS 180-4, two blocks
\*   4. one block of sixteen words 0xffffffff, not a padded message
\*   5. the padded message "a"
Messages ==
    <<
      <<
        <<
          Wd(\h6162, \h6380), Wd(\h0000, \h0000), Wd(\h0000, \h0000), Wd(\h0000, \h0000),
          Wd(\h0000, \h0000), Wd(\h0000, \h0000), Wd(\h0000, \h0000), Wd(\h0000, \h0000),
          Wd(\h0000, \h0000), Wd(\h0000, \h0000), Wd(\h0000, \h0000), Wd(\h0000, \h0000),
          Wd(\h0000, \h0000), Wd(\h0000, \h0000), Wd(\h0000, \h0000), Wd(\h0000, \h0018)
        >>
      >>,
      <<
        <<
          Wd(\h8000, \h0000), Wd(\h0000, \h0000), Wd(\h0000, \h0000), Wd(\h0000, \h0000),
          Wd(\h0000, \h0000), Wd(\h0000, \h0000), Wd(\h0000, \h0000), Wd(\h0000, \h0000),
          Wd(\h0000, \h0000), Wd(\h0000, \h0000), Wd(\h0000, \h0000), Wd(\h0000, \h0000),
          Wd(\h0000, \h0000), Wd(\h0000, \h0000), Wd(\h0000, \h0000), Wd(\h0000, \h0000)
        >>
      >>,
      <<
        <<
          Wd(\h6162, \h6364), Wd(\h6263, \h6465), Wd(\h6364, \h6566), Wd(\h6465, \h6667),
          Wd(\h6566, \h6768), Wd(\h6667, \h6869), Wd(\h6768, \h696a), Wd(\h6869, \h6a6b),
          Wd(\h696a, \h6b6c), Wd(\h6a6b, \h6c6d), Wd(\h6b6c, \h6d6e), Wd(\h6c6d, \h6e6f),
          Wd(\h6d6e, \h6f70), Wd(\h6e6f, \h7071), Wd(\h8000, \h0000), Wd(\h0000, \h0000)
        >>,
        <<
          Wd(\h0000, \h0000), Wd(\h0000, \h0000), Wd(\h0000, \h0000), Wd(\h0000, \h0000),
          Wd(\h0000, \h0000), Wd(\h0000, \h0000), Wd(\h0000, \h0000), Wd(\h0000, \h0000),
          Wd(\h0000, \h0000), Wd(\h0000, \h0000), Wd(\h0000, \h0000), Wd(\h0000, \h0000),
          Wd(\h0000, \h0000), Wd(\h0000, \h0000), Wd(\h0000, \h0000), Wd(\h0000, \h01c0)
        >>
      >>,
      <<
        <<
          Wd(\hffff, \hffff), Wd(\hffff, \hffff), Wd(\hffff, \hffff), Wd(\hffff, \hffff),
          Wd(\hffff, \hffff), Wd(\hffff, \hffff), Wd(\hffff, \hffff), Wd(\hffff, \hffff),
          Wd(\hffff, \hffff), Wd(\hffff, \hffff), Wd(\hffff, \hffff), Wd(\hffff, \hffff),
          Wd(\hffff, \hffff), Wd(\hffff, \hffff), Wd(\hffff, \hffff), Wd(\hffff, \hffff)
        >>
      >>,
      <<
        <<
          Wd(\h6180, \h0000), Wd(\h0000, \h0000), Wd(\h0000, \h0000), Wd(\h0000, \h0000),
          Wd(\h0000, \h0000), Wd(\h0000, \h0000), Wd(\h0000, \h0000), Wd(\h0000, \h0000),
          Wd(\h0000, \h0000), Wd(\h0000, \h0000), Wd(\h0000, \h0000), Wd(\h0000, \h0000),
          Wd(\h0000, \h0000), Wd(\h0000, \h0000), Wd(\h0000, \h0000), Wd(\h0000, \h0008)
        >>
      >>
    >>

\* the SHA-256 digests of those messages, from the reference
\* implementation (FIPS 180-4 test vectors for the first three)
ReferenceDigest ==
    <<
      <<
        Wd(\hba78, \h16bf), Wd(\h8f01, \hcfea), Wd(\h4141, \h40de), Wd(\h5dae, \h2223),
        Wd(\hb003, \h61a3), Wd(\h9617, \h7a9c), Wd(\hb410, \hff61), Wd(\hf200, \h15ad)
      >>,
      <<
        Wd(\he3b0, \hc442), Wd(\h98fc, \h1c14), Wd(\h9afb, \hf4c8), Wd(\h996f, \hb924),
        Wd(\h27ae, \h41e4), Wd(\h649b, \h934c), Wd(\ha495, \h991b), Wd(\h7852, \hb855)
      >>,
      <<
        Wd(\h248d, \h6a61), Wd(\hd206, \h38b8), Wd(\he5c0, \h2693), Wd(\h0c3e, \h6039),
        Wd(\ha33c, \he459), Wd(\h64ff, \h2167), Wd(\hf6ec, \hedd4), Wd(\h19db, \h06c1)
      >>,
      <<
        Wd(\hef0c, \h748d), Wd(\hf4da, \h50a8), Wd(\hd6c4, \h3c01), Wd(\h3edc, \h3ce7),
        Wd(\h6c9d, \h9fa9), Wd(\ha145, \h8ade), Wd(\h56eb, \h86c0), Wd(\ha644, \h92d2)
      >>,
      <<
        Wd(\hca97, \h8112), Wd(\hca1b, \hbdca), Wd(\hfac2, \h31b3), Wd(\h9a23, \hdc4d),
        Wd(\ha786, \heff8), Wd(\h147c, \h4e72), Wd(\hb980, \h7785), Wd(\hafee, \h48bb)
      >>
    >>

NumMessages == 3

BlockWords == 16
Rounds == 64

\* JavaScript's undefined, the value of M[t] past the end of a block
Undefined == <<>>

\* a block cut to its first n words, and a block with one more word
Truncated(M, n) == SubSeq(M, 1, n)
Extended(M) == Append(M, Wd(0, 1))

\* calls with a block that is not 16 words long: 15, 14 and 17 words, alone
\* and after a well-formed block
Malformed ==
    {<<Truncated(Messages[1][1], BlockWords - 1)>>,
     <<Truncated(Messages[1][1], BlockWords - 2)>>,
     <<Extended(Messages[1][1])>>,
     <<Messages[1][1], Truncated(Messages[2][1], BlockWords - 1)>>}

IsWellFormed(blocks) == \A i \in 1..Len(blocks) : Len(blocks[i]) = BlockWords

ShaIdle ==
    /\ spc = "idle"
    /\ sin = [blocks |-> <<>>, isConst |-> TRUE, ref |-> 0]
    /\ H = <<>>
    /\ W = <<>>
    /\ wv = <<>>
    /\ blk = 0
    /\ t = 0
    /\ ncons = 0
    /\ ssat = TRUE

\* hash(data): H is set to the initial hash values
HashCall ==
    /\ spc = "idle"
    /\ rpc = "idle" /\ cpc = "idle" /\ kpc = "idle" /\ mpc = "idle"
    /\ \E isConst \in BOOLEAN :
          \/ \E m \in 1..NumMessages :
                sin' = [blocks |-> Messages[m], isConst |-> isConst, ref |-> m]
          \/ \E b \in Malformed :
                sin' = [blocks |-> b, isConst |-> isConst, ref |-> 0]
    /\ H' = InitialH
    /\ blk' = 1
    /\ spc' = "load"
    /\ UNCHANGED <<W, wv, t, ncons, ssat>>
    /\ UNCHANGED <<rvars, cvars, kvars, mvars>>

\* for (let t = 0; t <= 15; t++) W[t] = M[t]
LoadBlock ==
    /\ spc = "load"
    /\ blk <= Len(sin.blocks)
    /\ LET M == sin.blocks[blk]
       IN  W' = [k \in 1..BlockWords |-> IF k <= Len(M) THEN M[k] ELSE Undefined]
    /\ t' = BlockWords
    /\ spc' = "schedule"
    /\ UNCHANGED <<sin, H, wv, blk, ncons, ssat>>
    /\ UNCHANGED <<rvars, cvars, kvars, mvars>>

\* one iteration of the schedule loop, t in 16..63; reading .value of, or
\* calling a method on, undefined throws a TypeError
ScheduleStep ==
    /\ spc = "schedule"
    /\ t < Rounds
    /\ LET w2 == W[t - 2 + 1]
           w7 == W[t - 7 + 1]
           w15 == W[t - 15 + 1]
           w16 == W[t - 16 + 1]
           calls == IF sin.isConst THEN 0 ELSE DeltaCalls
       IN  IF w2 = Undefined
           THEN spc' = "threw" /\ UNCHANGED <<W, t, ncons>>
           ELSE IF w7 = Undefined \/ w15 = Undefined
           THEN spc' = "threw" /\ ncons' = ncons + calls /\ UNCHANGED <<W, t>>
           ELSE IF w16 = Undefined
           THEN spc' = "threw" /\ ncons' = ncons + 2 * calls /\ UNCHANGED <<W, t>>
           ELSE /\ W' = Append(W, divMod32Remainder(
                            FAdd(FAdd(ToField(DeltaOne(w2)), ToField(w7)),
                                 FAdd(ToField(DeltaZero(w15)), ToField(w16)))))
                /\ t' = t + 1
                /\ ncons' = ncons + (IF sin.isConst THEN 0 ELSE 2 * DeltaCalls + 1)
                /\ spc' = "schedule"
    /\ UNCHANGED <<sin, H, wv, blk, ssat>>
    /\ UNCHANGED <<rvars, cvars, kvars, mvars>>

\* initialize working variables
BeginRounds ==
    /\ spc = "schedule"
    /\ t = Rounds
    /\ wv' = H
    /\ t' = 0
    /\ spc' = "round"
    /\ UNCHANGED <<sin, H, W, blk, ncons, ssat>>
    /\ UNCHANGED <<rvars, cvars, kvars, mvars>>

\* one iteration of the main loop, t in 0..63
RoundStep ==
    /\ spc = "round"
    /\ t < Rounds
    /\ LET a == wv[1]
           b == wv[2]
           c == wv[3]
           d == wv[4]
           e == wv[5]
           f == wv[6]
           g == wv[7]
           h == wv[8]
           unreducedT1 ==
               FAdd(FAdd(FAdd(FAdd(ToField(h), ToField(SigmaOne(e, sin.isConst))),
                              ToField(Ch(e, f, g))),
                         ToField(K[t + 1])),
                    ToField(W[t + 1]))
           unreducedT2 ==
               FAdd(ToField(SigmaZero(a, sin.isConst)), ToField(Maj(a, b, c)))
       IN  /\ wv' = <<divMod32Remainder(FAdd(unreducedT2, unreducedT1)), a, b, c,
                      divMod32Remainder(FAdd(ToField(d), unreducedT1)), e, f, g>>
           /\ ssat' = (/\ ssat
                       /\ Rotr3Holds(e, sin.isConst, SigmaOneAmounts)
                       /\ Rotr3Holds(a, sin.isConst, SigmaZeroAmounts))
    /\ t' = t + 1
    /\ ncons' = ncons + (IF sin.isConst THEN 0
                         ELSE SigmaCalls(SigmaOneAmounts) + ChCalls
                              + SigmaCalls(SigmaZeroAmounts) + MajCalls + 2)
    /\ UNCHANGED <<spc, sin, H, W, blk>>
    /\ UNCHANGED <<rvars, cvars, kvars, mvars>>

\* new intermediate hash value
EndBlock ==
    /\ spc = "round"
    /\ t = Rounds
    /\ H' = [k \in 1..8 |-> addMod32(H[k], wv[k])]
    /\ blk' = blk + 1
    /\ ncons' = ncons + (IF sin.isConst THEN 0 ELSE 8)
    /\ spc' = "load"
    /\ UNCHANGED <<sin, W, wv, t, ssat>>
    /\ UNCHANGED <<rvars, cvars, kvars, mvars>>

\* return H
HashReturn ==
    /\ spc = "load"
    /\ blk > Len(sin.blocks)
    /\ spc' = "done"
    /\ UNCHANGED <<sin, H, W, wv, blk, t, ncons, ssat>>
    /\ UNCHANGED <<rvars, cvars, kvars, mvars>>

\* the caller takes the digest, or the exception
HashEnd ==
    /\ spc \in {"done", "threw"}
    /\ spc' = "idle"
    /\ sin' = [blocks |-> <<>>, isConst |-> TRUE, ref |-> 0]
    /\ H' = <<>>
    /\ W' = <<>>
    /\ wv' = <<>>
    /\ blk' = 0
    /\ t' = 0
    /\ ncons' = 0
    /\ ssat' = TRUE
    /\ UNCHANGED <<rvars, cvars, kvars, mvars>>

ShaNext ==
    \/ HashCall
    \/ LoadBlock
    \/ ScheduleStep
    \/ BeginRounds
    \/ RoundStep
    \/ EndBlock
    \/ HashReturn
    \/ HashEnd

----------------------------------------------------------------------------
(* The native curve.  The Pallas curve y^2 = x^3 + 5 has a 255-bit base     *)
(* field Fp and a 255-bit scalar field Fq, both a little above 2^254, with  *)
(* Fp.modulus < Fq.modulus and Fp.modulus = 1 mod 32.  The model keeps the  *)
(* code and scales the numbers: y^2 = x^3 + 29 over the 13-bit prime 4129   *)
(* has prime order 4153, both a little above 2^12, 4129 < 4153 and          *)
(* 4129 = 1 mod 32.  2^254 becomes 2^12, the 250 high bits become 8, the    *)
(* 5 low bits stay 5, and the limb size l = 88 becomes 6, so that three     *)
(* limbs still hold a scalar and the low limb still splits into 5 bits and  *)
(* a rest.                                                                  *)

FpModulus == 4129
FqModulus == 4153
CurveB == 29
ShiftBits == 12
HighBits == 8
LowBits == 5
LimbBits == 6

FpMod(a) == a % FpModulus

FpSquare(a) == (a * a) % FpModulus

RECURSIVE FpPower(_, _)
FpPower(a, e) ==
    IF e = 0 THEN 1
    ELSE (FpSquare(FpPower(a, e \div 2)) * (IF e % 2 = 1 THEN a ELSE 1)) % FpModulus

\* Fp.inverse(a) ?? 0n
FpInverse(a) == IF FpMod(a) = 0 THEN 0 ELSE FpPower(FpMod(a), FpModulus - 2)

\* Fp.mul(a, b)
FpMul(a, b) == (FpMod(a) * FpMod(b)) % FpModulus

\* Fp.div(a, b) ?? 0n
FpDiv(a, b) == FpMul(a, FpInverse(b))

\* the point PallasAffine.scale returns for the identity: x = y = 0
ZeroPoint == <<0, 0>>

OnCurve(g) == FpSquare(g[2]) = FpMod(FpMul(FpSquare(g[1]), g[1]) + CurveB)

\* PallasAffine: the group law on affine points and the identity
PallasAdd(g, h) ==
    IF g = ZeroPoint THEN h
    ELSE IF h = ZeroPoint THEN g
    ELSE IF g[1] = h[1] /\ FpMod(g[2] + h[2]) = 0 THEN ZeroPoint
    ELSE LET m == IF g = h
                  THEN FpDiv(3 * FpSquare(g[1]), 2 * g[2])
                  ELSE FpDiv(h[2] - g[2], h[1] - g[1])
             x3 == FpMod(FpSquare(m) - g[1] - h[1])
         IN  <<x3, FpMod(FpMul(m, g[1] - x3) - g[2])>>

\* PallasAffine.scale(g, n): double-and-add
RECURSIVE PallasScale(_, _)
PallasScale(g, n) ==
    IF n = 0 THEN ZeroPoint
    ELSE LET half == PallasScale(g, n \div 2)
         IN  IF n % 2 = 1 THEN PallasAdd(PallasAdd(half, half), g)
             ELSE PallasAdd(half, half)

PallasNegate(g) == IF g = ZeroPoint THEN g ELSE <<g[1], FpMod(-g[2])>>

----------------------------------------------------------------------------
(* add, addNonZero, negate *)

\* add reporting infinity whenever the x coordinates agree, doubling included
addInfiniteOnSameX(g, h) ==
    LET sameX == g[1] = h[1]
        m == IF sameX THEN FpDiv(3 * (g[1] * g[1]), 2 * g[2])
             ELSE FpMul(h[2] - g[2], FpInverse(h[1] - g[1]))
        x3 == FpMod(m * m - g[1] - h[1])
    IN  [result |-> <<x3, FpMod(m * (g[1] - x3) - g[2])>>, isInfinity |-> sameX]

\* the witnesses of add(g, h), and what it returns
add(g, h) ==
    LET x1 == g[1]
        y1 == g[2]
        x2 == h[1]
        y2 == h[2]
        sameX == x1 = x2
        inf == sameX /\ y1 # y2
        infZ == IF sameX THEN FpInverse(y2 - y1) ELSE 0
        x21Inv == FpInverse(x2 - x1)
        slopeDouble == FpDiv(3 * (x1 * x1), 2 * y1)
        slopeAdd == FpMul(y2 - y1, x21Inv)
        m == IF sameX THEN slopeDouble ELSE slopeAdd
        x3 == FpMod(m * m - x1 - x2)
        y3 == FpMod(m * (x1 - x3) - y1)
    IN  [result |-> <<x3, y3>>, isInfinity |-> inf]

\* addNonZero(g, h): the point, and whether isInfinity.assertFalse() fails
addNonZero(g, h) == [result |-> add(g, h).result, fails |-> add(g, h).isInfinity]

negate(g) == <<g[1], FpMod(-g[2])>>

----------------------------------------------------------------------------
(* fieldToShiftedScalar, field3ToShiftedScalar *)

\* Field3.from / fieldToField3: three limbs of l bits
ToField3(n) ==
    <<n % (2 ^ LimbBits), (n \div (2 ^ LimbBits)) % (2 ^ LimbBits),
      n \div (2 ^ (2 * LimbBits))>>

\* Field3.toBigint
ToBigint(f3) == f3[1] + f3[2] * (2 ^ LimbBits) + f3[3] * (2 ^ (2 * LimbBits))

\* ForeignField.sub(a, b, f): a - b mod f, for a and b below f
ForeignFieldSub(a, b, f) == ToField3((ToBigint(a) - ToBigint(b)) % f)

\* common.js bit(t, i)
bit(n, i) == (n \div (2 ^ i)) % 2

\* common.js packBits, in the native field
packBits(bits) ==
    FpMod(bits[1] + 2 * bits[2] + 4 * bits[3] + 8 * bits[4] + 16 * bits[5])

\* the constant case of field3ToShiftedScalar
field3ToShiftedScalarConst(s3) ==
    LET tt == (ToBigint(s3) - 2 ^ ShiftBits) % FqModulus
        lo == tt % (2 ^ LowBits)
    IN  [low5 |-> <<bit(lo, 0), bit(lo, 1), bit(lo, 2), bit(lo, 3), bit(lo, 4)>>,
         high250 |-> FpMod(tt \div (2 ^ LowBits)),
         tHi0 |-> 0,
         sat |-> TRUE]

\* the variable case packing the middle limb with weight 2^l, not 2^(l-5)
field3ToShiftedScalarVarUnshifted(s3, tLo, tHi0) ==
    LET tl == ForeignFieldSub(s3, ToField3(2 ^ ShiftBits), FqModulus)
    IN  [low5 |-> tLo,
         high250 |-> FpMod(tHi0 + tl[2] * (2 ^ LimbBits)
                           + tl[3] * (2 ^ (2 * LimbBits - LowBits))),
         tHi0 |-> tHi0,
         sat |-> /\ \A i \in 1..LowBits : tLo[i] \in {0, 1}
                 /\ FpMod(packBits(tLo) + tHi0 * (2 ^ LowBits)) = tl[1]]

\* the variable case of field3ToShiftedScalar, on the witnesses tLo and tHi0
field3ToShiftedScalarVar(s3, tLo, tHi0) ==
    LET tl == ForeignFieldSub(s3, ToField3(2 ^ ShiftBits), FqModulus)
    IN  [low5 |-> tLo,
         high250 |-> FpMod(tHi0 + tl[2] * (2 ^ (LimbBits - LowBits))
                           + tl[3] * (2 ^ (2 * LimbBits - LowBits))),
         tHi0 |-> tHi0,
         sat |-> /\ \A i \in 1..LowBits : tLo[i] \in {0, 1}
                 /\ FpMod(packBits(tLo) + tHi0 * (2 ^ LowBits)) = tl[1]]

\* the witnesses the code of exists computes: the low bits of t0, and t0 >> 5
LowBitsOf(s3) ==
    LET t0 == ForeignFieldSub(s3, ToField3(2 ^ ShiftBits), FqModulus)[1]
    IN  <<bit(t0, 0), bit(t0, 1), bit(t0, 2), bit(t0, 3), bit(t0, 4)>>

HighOfLowLimb(s3) ==
    ForeignFieldSub(s3, ToField3(2 ^ ShiftBits), FqModulus)[1] \div (2 ^ LowBits)

field3ToShiftedScalar(s3, isConst) ==
    IF isConst THEN field3ToShiftedScalarConst(s3)
    ELSE field3ToShiftedScalarVar(s3, LowBitsOf(s3), HighOfLowLimb(s3))

fieldToShiftedScalar(s, isConst) == field3ToShiftedScalar(ToField3(s), isConst)

----------------------------------------------------------------------------
(* scale, scaleShiftedSplit5 *)

\* Snarky.group.scaleFastUnpack(P, tHi, 250): (2*tHi + 1 + 2^250)P
scaleFastUnpack(P, tHi) == PallasScale(P, (2 * tHi + 1 + 2 ^ HighBits) % FqModulus)

\* the constant case of scaleShiftedSplit5
scaleShiftedSplit5Const(P, ts) ==
    PallasScale(P, (packBits(ts.low5) + ts.high250 * (2 ^ LowBits) + 2 ^ ShiftBits)
                   % FqModulus)

\* the constant case of scale
scaleConst(P, s) == PallasScale(P, s % FqModulus)

\* Provable.if(b, Point, u, v)
ProvableIf(b, u, v) == IF b = 1 THEN u ELSE v

\* points calls are made with: on the curve, not the identity
SamplePoints == <<<<1, 613>>, <<6, 2658>>, <<9, 242>>>>

NumPoints == 1

\* scalars a prover forges a split for
ForgedScalars == {0, 1, 2 ^ ShiftBits, FqModulus - 1}

NoScalar == [low5 |-> <<>>, high250 |-> 0, tHi0 |-> 0, sat |-> TRUE]
NoCurveInput == [P |-> ZeroPoint, Q |-> ZeroPoint, s |-> 0, isConst |-> TRUE,
                 honest |-> TRUE]
NoSum == [result |-> ZeroPoint, isInfinity |-> FALSE]

CurveIdle ==
    /\ cpc = "idle"
    /\ cin = NoCurveInput
    /\ tsc = NoScalar
    /\ R = ZeroPoint
    /\ bitno = 0
    /\ nzfail = FALSE
    /\ aout = NoSum

\* scale(P, s) on constants: PallasAffine.scale
ScaleConstant ==
    /\ cpc = "idle"
    /\ rpc = "idle" /\ spc = "idle" /\ kpc = "idle" /\ mpc = "idle"
    /\ \E k \in 1..NumPoints, s \in 0..(FqModulus - 1) :
          /\ cin' = [NoCurveInput EXCEPT !.P = SamplePoints[k], !.s = s]
          /\ R' = scaleConst(SamplePoints[k], s)
    /\ cpc' = "done"
    /\ UNCHANGED <<tsc, bitno, nzfail, aout>>
    /\ UNCHANGED <<rvars, svars, kvars, mvars>>

\* field3ToShiftedScalar(s), the first step of scale(P, s) on variables, or
\* called on a constant scalar; the prover runs the witness code of exists
SplitScalar ==
    /\ cpc = "idle"
    /\ rpc = "idle" /\ spc = "idle" /\ kpc = "idle" /\ mpc = "idle"
    /\ \E k \in 1..NumPoints, s \in 0..(FqModulus - 1), isConst \in BOOLEAN :
          /\ cin' = [NoCurveInput EXCEPT !.P = SamplePoints[k], !.s = s,
                                         !.isConst = isConst]
          /\ tsc' = fieldToShiftedScalar(s, isConst)
    /\ cpc' = "split"
    /\ UNCHANGED <<R, bitno, nzfail, aout>>
    /\ UNCHANGED <<rvars, svars, kvars, mvars>>

\* field3ToShiftedScalar(s) on a variable scalar, the prover supplying its
\* own low bits and tHi0; the proof exists only when the constraints hold
SplitScalarProver ==
    /\ cpc = "idle"
    /\ rpc = "idle" /\ spc = "idle" /\ kpc = "idle" /\ mpc = "idle"
    /\ \E s \in ForgedScalars, b0 \in 0..2, b1 \in 0..1, b2 \in 0..1,
          b3 \in 0..1, b4 \in 0..1, tHi0 \in 0..(FpModulus - 1) :
          LET r == field3ToShiftedScalarVar(ToField3(s), <<b0, b1, b2, b3, b4>>, tHi0)
          IN  /\ r.sat
              /\ tsc' = r
              /\ cin' = [NoCurveInput EXCEPT
                            !.P = SamplePoints[1], !.s = s, !.isConst = FALSE,
                            !.honest = (/\ <<b0, b1, b2, b3, b4>> = LowBitsOf(ToField3(s))
                                        /\ tHi0 = HighOfLowLimb(ToField3(s)))]
    /\ cpc' = "split"
    /\ UNCHANGED <<R, bitno, nzfail, aout>>
    /\ UNCHANGED <<rvars, svars, kvars, mvars>>

\* scaleShiftedSplit5 on a constant point and a constant ShiftedScalar
WalkConstant ==
    /\ cpc = "split"
    /\ cin.isConst
    /\ R' = scaleShiftedSplit5Const(cin.P, tsc)
    /\ cpc' = "done"
    /\ UNCHANGED <<cin, tsc, bitno, nzfail, aout>>
    /\ UNCHANGED <<rvars, svars, kvars, mvars>>

\* R = (2*(t >> 5) + 1 + 2^250)P
Unpack ==
    /\ cpc = "split"
    /\ ~cin.isConst
    /\ cin.honest
    /\ R' = scaleFastUnpack(cin.P, tsc.high250)
    /\ cpc' = "unpacked"
    /\ UNCHANGED <<cin, tsc, bitno, nzfail, aout>>
    /\ UNCHANGED <<rvars, svars, kvars, mvars>>

\* the first step with its branches swapped: R = t4 ? R - P : R
SubtractPSwapped ==
    /\ cpc = "unpacked"
    /\ LET d == addNonZero(R, negate(cin.P))
       IN  /\ R' = ProvableIf(tsc.low5[5], d.result, R)
           /\ nzfail' = (nzfail \/ d.fails)
    /\ bitno' = 3
    /\ cpc' = "walk"
    /\ UNCHANGED <<cin, tsc, aout>>
    /\ UNCHANGED <<rvars, svars, kvars, mvars>>

\* R = t4 ? R : R - P
SubtractP ==
    /\ cpc = "unpacked"
    /\ LET d == addNonZero(R, negate(cin.P))
       IN  /\ R' = ProvableIf(tsc.low5[5], R, d.result)
           /\ nzfail' = (nzfail \/ d.fails)
    /\ bitno' = 3
    /\ cpc' = "walk"
    /\ UNCHANGED <<cin, tsc, aout>>
    /\ UNCHANGED <<rvars, svars, kvars, mvars>>

\* for (let t of [t3, t2, t1]): R = 2R, then R = t ? R + P : R
DoubleAndAdd ==
    /\ cpc = "walk"
    /\ bitno >= 1
    /\ LET d == addNonZero(R, R)
           a == addNonZero(d.result, cin.P)
       IN  /\ R' = ProvableIf(tsc.low5[bitno + 1], a.result, d.result)
           /\ nzfail' = (nzfail \/ d.fails \/ a.fails)
    /\ bitno' = bitno - 1
    /\ UNCHANGED <<cpc, cin, tsc, aout>>
    /\ UNCHANGED <<rvars, svars, kvars, mvars>>

\* the final step made like the steps before it: R + P by addNonZero
FinalStepNonZero ==
    /\ cpc = "walk"
    /\ bitno = 0
    /\ LET d == addNonZero(R, R)
           a == add(d.result, cin.P)
       IN  /\ R' = ProvableIf(tsc.low5[1], a.result, d.result)
           /\ nzfail' = (nzfail \/ d.fails \/ a.isInfinity)
           /\ aout' = a
    /\ cpc' = "done"
    /\ UNCHANGED <<cin, tsc, bitno>>
    /\ UNCHANGED <<rvars, svars, kvars, mvars>>

\* the final step: R = 2R, then R = t0 ? (R + P, or zero when infinite) : R
FinalStep ==
    /\ cpc = "walk"
    /\ bitno = 0
    /\ LET d == addNonZero(R, R)
           a == add(d.result, cin.P)
           result == IF a.isInfinity THEN <<0, 0>> ELSE a.result
       IN  /\ R' = ProvableIf(tsc.low5[1], result, d.result)
           /\ nzfail' = (nzfail \/ d.fails)
           /\ aout' = a
    /\ cpc' = "done"
    /\ UNCHANGED <<cin, tsc, bitno>>
    /\ UNCHANGED <<rvars, svars, kvars, mvars>>

\* add(g, h) on two points of the curve
AddPoints ==
    /\ cpc = "idle"
    /\ rpc = "idle" /\ spc = "idle" /\ kpc = "idle" /\ mpc = "idle"
    /\ \E k \in 1..NumPoints, i \in 1..2, j \in 1..(FqModulus - 1) :
          LET g == PallasScale(SamplePoints[k], i)
              h == PallasScale(SamplePoints[k], j)
          IN  /\ cin' = [NoCurveInput EXCEPT !.P = g, !.Q = h]
              /\ aout' = add(g, h)
    /\ cpc' = "added"
    /\ UNCHANGED <<tsc, R, bitno, nzfail>>
    /\ UNCHANGED <<rvars, svars, kvars, mvars>>

\* the caller takes the result
CurveReturn ==
    /\ \/ cpc \in {"done", "added"}
       \/ cpc = "split" /\ (~cin.honest \/ cin.isConst)
    /\ cpc' = "idle"
    /\ cin' = NoCurveInput
    /\ tsc' = NoScalar
    /\ R' = ZeroPoint
    /\ bitno' = 0
    /\ nzfail' = FALSE
    /\ aout' = NoSum
    /\ UNCHANGED <<rvars, svars, kvars, mvars>>

CurveNext ==
    \/ ScaleConstant
    \/ SplitScalar
    \/ SplitScalarProver
    \/ WalkConstant
    \/ Unpack
    \/ SubtractP
    \/ DoubleAndAdd
    \/ FinalStep
    \/ AddPoints
    \/ CurveReturn

----------------------------------------------------------------------------
(* rangeCheckNSmall on every element of the native field.  Here a field    *)
(* element is its residue below the Pallas base field modulus, as PLimbs   *)
(* little-endian 16-bit limbs, and multiplication reduces modulo it.       *)

PLimbs == 16

\* Fp.modulus = 0x40000000000000000000000000000000224698fc094cf91b992d30ed00000001
PModulus == <<1, 0, 12525, 39213, 63771, 2380, 39164, 8774, 0, 0, 0, 0, 0, 0, 0, 16384>>

PZero == [j \in 1..PLimbs |-> 0]

\* the integer v, 0 <= v < 2^31
PFromInt(v) ==
    [j \in 1..PLimbs |-> IF j = 1 THEN v % Base
                         ELSE IF j = 2 THEN v \div Base ELSE 0]

RECURSIVE PGeqFrom(_, _, _)
PGeqFrom(a, b, j) ==
    IF j = 0 THEN TRUE
    ELSE IF a[j] # b[j] THEN a[j] > b[j]
    ELSE PGeqFrom(a, b, j - 1)

PGeq(a, b) == PGeqFrom(a, b, PLimbs)

RECURSIVE PAddFrom(_, _, _, _)
PAddFrom(a, b, j, c) ==
    IF j > PLimbs THEN <<>>
    ELSE <<(a[j] + b[j] + c) % Base>>
         \o PAddFrom(a, b, j + 1, (a[j] + b[j] + c) \div Base)

RECURSIVE PSubFrom(_, _, _, _)
PSubFrom(a, b, j, c) ==
    IF j > PLimbs THEN <<>>
    ELSE <<(a[j] - b[j] - c) % Base>>
         \o PSubFrom(a, b, j + 1, IF a[j] - b[j] - c < 0 THEN 1 ELSE 0)

\* a + b and a - b on the integers, for 0 <= b <= a and a + b < 2^256
PAdd(a, b) == PAddFrom(a, b, 1, 0)
PSub(a, b) == PSubFrom(a, b, 1, 0)

\* Field.neg
PNeg(a) == IF a = PZero THEN a ELSE PSub(PModulus, a)

\* 2a mod p
PDouble(a) ==
    LET d == PAdd(a, a)
    IN  IF PGeq(d, PModulus) THEN PSub(d, PModulus) ELSE d

RECURSIVE PHalfFrom(_, _)
PHalfFrom(e, j) ==
    IF j > PLimbs THEN <<>>
    ELSE <<(e[j] \div 2)
           + (IF j < PLimbs THEN (e[j + 1] % 2) * (Base \div 2) ELSE 0)>>
         \o PHalfFrom(e, j + 1)

\* a / 2 mod p: a/2 for an even residue, (a + p)/2 for an odd one
PHalf(a) == PHalfFrom(IF a[1] % 2 = 0 THEN a ELSE PAdd(a, PModulus), 1)

\* a * 2^k mod p
RECURSIVE PDoubled(_, _)
PDoubled(a, k) == IF k = 0 \/ a = PZero THEN a ELSE PDoubled(PDouble(a), k - 1)

\* Field.mul by the JavaScript number c = 1 << k
PMul(a, c) == IF c.neg THEN PNeg(PDoubled(a, c.exp)) ELSE PDoubled(a, c.exp)

\* x.rangeCheckHelper(16): the field element of the 16 low bits of x
rangeCheckHelper(a) == [j \in 1..PLimbs |-> IF j = 1 THEN a[1] ELSE 0]

\* rangeCheckNSmall with its second range check alone
rangeCheckNSmallScaledOnly(x, n) ==
    IF n > RangeCheckBits THEN [threw |-> TRUE, emitted |-> 0, sat |-> TRUE]
    ELSE [threw |-> FALSE,
          emitted |-> rangeCheckCount(n),
          sat |-> \/ n = RangeCheckBits
                  \/ LET xScaled == PMul(x, Shl(RangeCheckBits - n))
                     IN  rangeCheckHelper(xScaled) = xScaled]

\* rangeCheckNSmall(x, n) on a field element x: whether the assert throws,
\* the constraints emitted and whether they hold
rangeCheckNSmallModP(x, n) ==
    IF n > RangeCheckBits THEN [threw |-> TRUE, emitted |-> 0, sat |-> TRUE]
    ELSE [threw |-> FALSE,
          emitted |-> rangeCheckCount(n),
          sat |-> /\ rangeCheckHelper(x) = x
                  /\ \/ n = RangeCheckBits
                     \/ LET xScaled == PMul(x, Shl(RangeCheckBits - n))
                        IN  rangeCheckHelper(xScaled) = xScaled]

\* the field elements checked are +-(2^j + d) / 2^k: the integers around
\* every power of two, their negatives, and their quotients by powers of two
MaxExponent == 17
MaxHalvings == 16
MaxWidth == 18

NoRangeInput == [x |-> PZero, n |-> 0, seed |-> 0, neg |-> FALSE, halvings |-> 0]
NoRangeOutput == [threw |-> FALSE, emitted |-> 0, sat |-> TRUE]

RangeIdle ==
    /\ kpc = "idle"
    /\ kin = NoRangeInput
    /\ kout = NoRangeOutput

\* the caller has a field element x: an integer near a power of two, or
\* the negative of one
PickElement ==
    /\ kpc = "idle"
    /\ rpc = "idle" /\ spc = "idle" /\ cpc = "idle" /\ mpc = "idle"
    /\ \E j \in 0..MaxExponent, d \in -1..1, neg \in BOOLEAN :
          LET seed == 2 ^ j + d
          IN  kin' = [NoRangeInput EXCEPT
                         !.x = IF neg THEN PNeg(PFromInt(seed)) ELSE PFromInt(seed),
                         !.seed = seed, !.neg = neg]
    /\ kpc' = "picked"
    /\ UNCHANGED kout
    /\ UNCHANGED <<rvars, svars, cvars, mvars>>

\* the caller divides x by two in the field
HalveElement ==
    /\ kpc = "picked"
    /\ kin.halvings < MaxHalvings
    /\ kin' = [kin EXCEPT !.x = PHalf(kin.x), !.halvings = kin.halvings + 1]
    /\ UNCHANGED <<kpc, kout>>
    /\ UNCHANGED <<rvars, svars, cvars, mvars>>

\* rangeCheckNSmall(x, n)
CallRangeCheck ==
    /\ kpc = "picked"
    /\ \E n \in 0..MaxWidth :
          /\ kin' = [kin EXCEPT !.n = n]
          /\ kout' = rangeCheckNSmallModP(kin.x, n)
    /\ kpc' = "done"
    /\ UNCHANGED <<rvars, svars, cvars, mvars>>

\* the caller goes on, or the exception leaves the gadget
ReturnRangeCheck ==
    /\ kpc = "done"
    /\ kpc' = "idle"
    /\ kin' = NoRangeInput
    /\ kout' = NoRangeOutput
    /\ UNCHANGED <<rvars, svars, cvars, mvars>>

RangeNext ==
    \/ PickElement
    \/ HalveElement
    \/ CallRangeCheck
    \/ ReturnRangeCheck

----------------------------------------------------------------------------
(* public_ and circuitMain.  Parameter indices count from 0 as in the       *)
(* code; the sequences holding one entry per parameter count from 1.        *)

\* the types a parameter is declared with
ParamTypeNames == {"Field", "Bool"}

MaxArgs == 3

\* the members of a sequence
Range(s) == {s[j] : j \in 1..Len(s)}

\* new Set(array): the array's distinct members, in order of first occurrence
RECURSIVE SetFrom(_)
SetFrom(s) ==
    IF s = <<>> THEN <<>>
    ELSE LET front == SetFrom(SubSeq(s, 1, Len(s) - 1))
             last == s[Len(s)]
         IN  IF last \in Range(front) THEN front ELSE Append(front, last)

\* the loop that fills witnessIndexSet: every i from 0 that is not public
RECURSIVE WitnessIndices(_, _, _)
WitnessIndices(pubSet, i, numArgs) ==
    IF i >= numArgs THEN <<>>
    ELSE (IF i \in Range(pubSet) THEN <<>> ELSE <<i>>)
         \o WitnessIndices(pubSet, i + 1, numArgs)

\* Array.from(indexSet).map((i) => paramTypes[i]); an index past the
\* parameters maps to undefined
TypesAt(indexSet, types) ==
    [k \in 1..Len(indexSet) |->
        IF indexSet[k] < Len(types) THEN types[indexSet[k] + 1] ELSE "undefined"]

\* the list the backend hands to snarkyMain: one element per component of
\* the Typ, the k-th one (from 0) read by the Typ's k-th component
ListOf(name, typ) == [k \in 1..Len(typ) |-> [list |-> name, k |-> k - 1]]

MainIdle ==
    /\ mpc = "idle"
    /\ paramTypes = <<>>
    /\ tpublic = <<>>
    /\ publicIndexSet = <<>>
    /\ witnessIndexSet = <<>>
    /\ snarkyPublicTyp = <<>>
    /\ snarkyWitnessTyp = <<>>
    /\ mi = 0
    /\ mw = <<>>
    /\ mpub = <<>>
    /\ margs = <<>>

\* a class with a main method is declared: design:paramtypes
DeclareMain ==
    /\ mpc = "idle"
    /\ rpc = "idle" /\ spc = "idle" /\ cpc = "idle" /\ kpc = "idle"
    /\ \E n \in 0..MaxArgs : \E types \in [1..n -> ParamTypeNames] :
          paramTypes' = types
    /\ mpc' = "declared"
    /\ UNCHANGED <<tpublic, publicIndexSet, witnessIndexSet, snarkyPublicTyp,
                   snarkyWitnessTyp, mi, mw, mpub, margs>>
    /\ UNCHANGED <<rvars, svars, cvars, kvars>>

\* @public_ on the parameter at index: target._public.push(index)
public_ ==
    /\ mpc = "declared"
    /\ \E index \in 0..(Len(paramTypes) - 1) :
          /\ index \notin Range(tpublic)
          /\ tpublic' = Append(tpublic, index)
    /\ UNCHANGED <<mpc, paramTypes, publicIndexSet, witnessIndexSet,
                   snarkyPublicTyp, snarkyWitnessTyp, mi, mw, mpub, margs>>
    /\ UNCHANGED <<rvars, svars, cvars, kvars>>

\* @circuitMain on the method
circuitMain ==
    /\ mpc = "declared"
    /\ LET numArgs == Len(paramTypes)
           pubSet == SetFrom(tpublic)
           witSet == WitnessIndices(pubSet, 0, numArgs)
       IN  /\ publicIndexSet' = pubSet
           /\ witnessIndexSet' = witSet
           /\ snarkyWitnessTyp' = TypesAt(witSet, paramTypes)
           /\ snarkyPublicTyp' = TypesAt(pubSet, paramTypes)
    /\ mpc' = "decorated"
    /\ UNCHANGED <<paramTypes, tpublic, mi, mw, mpub, margs>>
    /\ UNCHANGED <<rvars, svars, cvars, kvars>>

\* target.snarkyMain(w, pub) is called with the lists read by the two Typs
snarkyMain ==
    /\ mpc = "decorated"
    /\ mw' = ListOf("w", snarkyWitnessTyp)
    /\ mpub' = ListOf("pub", snarkyPublicTyp)
    /\ mi' = 0
    /\ margs' = <<>>
    /\ mpc' = "running"
    /\ UNCHANGED <<paramTypes, tpublic, publicIndexSet, witnessIndexSet,
                   snarkyPublicTyp, snarkyWitnessTyp>>
    /\ UNCHANGED <<rvars, svars, cvars, kvars>>

\* Array.prototype.shift: the first element, undefined on an empty array
Shifted(list) == IF list = <<>> THEN [list |-> "undefined", k |-> 0] ELSE Head(list)

\* args.push((publicIndexSet.has(i) ? pub : w).shift())
PushArg ==
    /\ mpc = "running"
    /\ mi < Len(paramTypes)
    /\ IF mi \in Range(publicIndexSet)
       THEN /\ margs' = Append(margs, Shifted(mpub))
            /\ mpub' = IF mpub = <<>> THEN mpub ELSE Tail(mpub)
            /\ UNCHANGED mw
       ELSE /\ margs' = Append(margs, Shifted(mw))
            /\ mw' = IF mw = <<>> THEN mw ELSE Tail(mw)
            /\ UNCHANGED mpub
    /\ mi' = mi + 1
    /\ UNCHANGED <<mpc, paramTypes, tpublic, publicIndexSet, witnessIndexSet,
                   snarkyPublicTyp, snarkyWitnessTyp>>
    /\ UNCHANGED <<rvars, svars, cvars, kvars>>

\* target[propertyName].apply(target, args)
ApplyMain ==
    /\ mpc = "running"
    /\ mi = Len(paramTypes)
    /\ mpc' = "ran"
    /\ UNCHANGED <<paramTypes, tpublic, publicIndexSet, witnessIndexSet,
                   snarkyPublicTyp, snarkyWitnessTyp, mi, mw, mpub, margs>>
    /\ UNCHANGED <<rvars, svars, cvars, kvars>>

\* snarkyMain returns, and the class is done with
MainReturn ==
    /\ mpc = "ran"
    /\ mpc' = "idle"
    /\ paramTypes' = <<>>
    /\ tpublic' = <<>>
    /\ publicIndexSet' = <<>>
    /\ witnessIndexSet' = <<>>
    /\ snarkyPublicTyp' = <<>>
    /\ snarkyWitnessTyp' = <<>>
    /\ mi' = 0
    /\ mw' = <<>>
    /\ mpub' = <<>>
    /\ margs' = <<>>
    /\ UNCHANGED <<rvars, svars, cvars, kvars>>

MainNext ==
    \/ DeclareMain
    \/ public_
    \/ circuitMain
    \/ snarkyMain
    \/ PushArg
    \/ ApplyMain
    \/ MainReturn

----------------------------------------------------------------------------
(* Specifications.  Evaluation is single-threaded and synchronous: a gadget *)
(* call runs to completion before another starts.                           *)

Init == RotrIdle /\ ShaIdle /\ CurveIdle /\ RangeIdle /\ MainIdle

Next ==
    \/ RotrNext
    \/ ShaNext
    \/ CurveNext
    \/ RangeNext
    \/ MainNext

Spec == Init /\ [][Next]_vars

\* calls of ROTR3 alone
SpecRotr == Init /\ [][RotrNext]_vars

\* calls of SHA256.hash alone
SpecSha == Init /\ [][ShaNext]_vars

\* calls of the curve gadgets alone
SpecCurve == Init /\ [][CurveNext]_vars

\* calls of rangeCheckNSmall alone
SpecRange == Init /\ [][RangeNext]_vars

\* decorating a circuit class and running its main method
SpecMain == Init /\ [][MainNext]_vars

----------------------------------------------------------------------------
(* Claims about SHA256.hash *)

\* C2: for every non-empty sequence of 16-word blocks, on constants and on
\* variables, the digest hash returns is the SHA-256 digest of the reference
\* implementation, and the honest witness satisfies every constraint.
C2_HashIsSha256 ==
    (spc = "done" /\ sin.ref > 0)
        => (H = ReferenceDigest[sin.ref] /\ ssat)

\* C2 happens: the two-block message, on variables, returns its digest
C2_Witness ==
    /\ spc = "done"
    /\ sin.ref = 3
    /\ ~sin.isConst
    /\ blk = 3
    /\ H = ReferenceDigest[3]

\* C7 (as claimed): a call with a block that is not 16 words long fails
\* before any constraint is emitted, and never returns a digest.
C7_MalformedBlockFailsFast ==
    (spc # "idle" /\ ~IsWellFormed(sin.blocks))
        => (spc # "done" /\ ncons = 0)

\* what the code does with a block of 17 words: the words past the
\* sixteenth are ignored and the digest of the first sixteen is returned
LongBlockIsHashed ==
    (spc = "done" /\ sin.blocks = <<Extended(Messages[1][1])>>)
        => H = ReferenceDigest[1]

----------------------------------------------------------------------------
(* Claims about the curve gadgets *)

\* t = s - 2^254 mod q
ShiftedOf(s) == (s - 2 ^ ShiftBits) % FqModulus

\* ((t >> k) + 2^(254-k))P
Accumulated(P, s, k) ==
    PallasScale(P, ((ShiftedOf(s) \div (2 ^ k)) + 2 ^ (ShiftBits - k)) % FqModulus)

\* C3: for every scalar s in [0, q) and every point P other than the
\* identity, scale on variables returns s*P: after the step of low bit k the
\* accumulator is ((t >> k) + 2^(254-k))P, for k = 4, 3, 2, 1, and at the end
\* it is (t + 2^254)P = s*P, the all-zero point for s = 0, P for s = 1 and
\* -P for s = q - 1, as on constants.
C3_ScaleIsScalarMultiple ==
    /\ (cpc = "walk" /\ ~cin.isConst)
          => R = Accumulated(cin.P, cin.s, bitno + 1)
    /\ cpc = "done"
          => /\ R = Accumulated(cin.P, cin.s, 0)
             /\ R = scaleConst(cin.P, cin.s)
             /\ (cin.s = 0 => R = <<0, 0>>)
             /\ (cin.s = 1 => R = cin.P)
             /\ (cin.s = FqModulus - 1 => R = negate(cin.P))

\* C3 happens: the variable path ends on the all-zero point for s = 0
C3_Witness ==
    /\ cpc = "done"
    /\ ~cin.isConst
    /\ cin.s = 0
    /\ cin.P = SamplePoints[1]
    /\ tsc.low5[1] = 1
    /\ R = <<0, 0>>

\* C4: for every two affine points g, h of the curve, add(g, h) reports
\* isInfinity exactly when h = -g, and otherwise returns g + h, a point of
\* the curve, when doubling and when the points differ.
C4_AddIsComplete ==
    cpc = "added"
        => /\ aout.isInfinity <=> (cin.Q = PallasNegate(cin.P))
           /\ ~aout.isInfinity
                 => /\ aout.result = PallasAdd(cin.P, cin.Q)
                    /\ OnCurve(aout.result)

\* C4 happens: a doubling that returns 2g
C4_Witness ==
    /\ cpc = "added"
    /\ cin.P = cin.Q
    /\ ~aout.isInfinity
    /\ aout.result = PallasScale(cin.P, 2)
    /\ aout.result # cin.P

\* C5: for every scalar s, on constants and on variables with the honest
\* witness, the ShiftedScalar has five low bits that are 0 or 1, satisfies
\* low5 + high250 * 2^5 = (s - 2^254) mod q with 0 <= high250 < 2^250, and is
\* the same on both paths.
C5_ShiftedScalarRepresentsT ==
    (cpc = "split" /\ cin.honest)
        => /\ \A i \in 1..LowBits : tsc.low5[i] \in {0, 1}
           /\ tsc.low5[1] + 2 * tsc.low5[2] + 4 * tsc.low5[3] + 8 * tsc.low5[4]
                + 16 * tsc.low5[5] + tsc.high250 * (2 ^ LowBits) = ShiftedOf(cin.s)
           /\ tsc.high250 >= 0
           /\ tsc.high250 < 2 ^ HighBits
           /\ tsc.sat
           /\ tsc.low5 = field3ToShiftedScalarConst(ToField3(cin.s)).low5
           /\ tsc.high250 = field3ToShiftedScalarConst(ToField3(cin.s)).high250

\* C5 happens: the variable path on a scalar whose t fills all three limbs
C5_Witness ==
    /\ cpc = "split"
    /\ cin.honest
    /\ ~cin.isConst
    /\ cin.s = 2 ^ ShiftBits - 1
    /\ tsc.high250 >= 2 ^ (2 * LimbBits - LowBits)
    /\ tsc.low5 = <<0, 0, 0, 1, 1>>

\* C9 (as claimed): on a variable scalar, the constraints are satisfied only
\* by the faithful split of the low limb, so tHi0 is below 2^83 and high250
\* below 2^250.
C9_SplitIsForced ==
    (cpc = "split" /\ ~cin.isConst /\ tsc.sat)
        => /\ tsc.low5 = LowBitsOf(ToField3(cin.s))
           /\ tsc.tHi0 = HighOfLowLimb(ToField3(cin.s))
           /\ tsc.tHi0 < 2 ^ (LimbBits - LowBits)
           /\ tsc.high250 < 2 ^ HighBits

\* what the constraints do force: the low bits are bits
LowBitsAreBits ==
    (cpc = "split" /\ ~cin.isConst /\ tsc.sat)
        => \A i \in 1..LowBits : tsc.low5[i] \in {0, 1}

\* C10: for every scalar s in [0, q) and every point P other than the
\* identity, no addNonZero of the walk has operands that are inverses of each
\* other; only the final add(R, P) can report infinity, and its result is
\* then the all-zero point before the select on t0.
C10_NoInverseOperands ==
    /\ ~nzfail
    /\ (cpc = "done" /\ ~cin.isConst /\ aout.isInfinity)
          => /\ cin.s \in {0, FqModulus - 1}
             /\ R = IF tsc.low5[1] = 1 THEN <<0, 0>> ELSE negate(cin.P)

\* C10 happens: for s = q - 1 the final add is of -P and P, and is not taken
C10_Witness ==
    /\ cpc = "done"
    /\ ~cin.isConst
    /\ ~nzfail
    /\ aout.isInfinity
    /\ cin.s = FqModulus - 1
    /\ tsc.low5[1] = 0
    /\ R = negate(cin.P)

----------------------------------------------------------------------------
(* Claims about rangeCheckNSmall *)

\* x < 2^n on the integer a residue is
IsBelow2ToN(x, n) == (\A j \in 2..PLimbs : x[j] = 0) /\ x[1] < 2 ^ n

\* C11: rangeCheckNSmall(x, n) throws for n > 16 before emitting a constraint,
\* and for n in 0..16 it does not throw and its constraints hold of a field
\* element x exactly when x < 2^n as an integer.
C11_RangeCheckIsExact ==
    kpc = "done" =>
        /\ kin.n > RangeCheckBits => kout.threw /\ kout.emitted = 0
        /\ kin.n <= RangeCheckBits =>
              /\ ~kout.threw
              /\ kout.sat <=> IsBelow2ToN(kin.x, kin.n)

\* a quotient y / 2^(16-n) with y odd and below 2^16: the scaled value is in
\* range, the element is not, and the first range check is what rejects it
C11_Witness ==
    /\ kpc = "done"
    /\ kin.n = 3
    /\ kin.seed = 5
    /\ ~kin.neg
    /\ kin.halvings = RangeCheckBits - 3
    /\ ~kout.threw
    /\ ~kout.sat

\* on the integers the ROTR3 model works with, the limb model of
\* rangeCheckNSmall agrees with the one on residues
LimbModelAgrees ==
    (kpc = "done" /\ kin.halvings = 0 /\ kin.n <= RangeCheckBits /\ kin.seed < Base) =>
        (kout.sat <=> rangeCheckNSmall(FInt(IF kin.neg THEN -kin.seed ELSE kin.seed), kin.n))

----------------------------------------------------------------------------
(* Claims about circuitMain *)

\* the public and witness index sets partition the parameter positions
IndexSetsPartition ==
    /\ Range(publicIndexSet) \cup Range(witnessIndexSet) = 0..(Len(paramTypes) - 1)
    /\ Range(publicIndexSet) \cap Range(witnessIndexSet) = {}

\* how many parameters before i are of i's kind
EarlierOfKind(i) ==
    Cardinality({j \in 0..(i - 1) :
                    (j \in Range(publicIndexSet)) = (i \in Range(publicIndexSet))})

\* parameter i received the next unconsumed element of its list
ReceivedNext(i) ==
    /\ margs[i + 1].list = (IF i \in Range(publicIndexSet) THEN "pub" ELSE "w")
    /\ margs[i + 1].k = EarlierOfKind(i)

\* the Typ component that read the element parameter i received has the
\* declared type of parameter i
ReceivedOwnType(i) ==
    LET typ == IF margs[i + 1].list = "pub" THEN snarkyPublicTyp ELSE snarkyWitnessTyp
    IN  /\ margs[i + 1].k < Len(typ)
        /\ typ[margs[i + 1].k + 1] = paramTypes[i + 1]

\* C12: whatever order public_ registered the public parameters in, the index
\* sets partition the parameter positions, snarkyMain passes to parameter i
\* the next unconsumed element of its list, and the k-th component type of
\* each Typ is the declared type of the parameter receiving the k-th element.
C12_ArgumentsMatchTypes ==
    /\ mpc \in {"decorated", "running", "ran"} => IndexSetsPartition
    /\ mpc = "ran" =>
          \A i \in 0..(Len(paramTypes) - 1) : ReceivedNext(i) /\ ReceivedOwnType(i)

\* the partition and the order of consumption, without the types
ArgumentsInOrder ==
    /\ mpc \in {"decorated", "running", "ran"} => IndexSetsPartition
    /\ mpc = "ran" => \A i \in 0..(Len(paramTypes) - 1) : ReceivedNext(i)

\* the witness list's types match the parameters that receive them
WitnessTypesMatch ==
    mpc = "ran" =>
        \A i \in 0..(Len(paramTypes) - 1) :
            i \notin Range(publicIndexSet) => ReceivedOwnType(i)

\* registered in ascending order of index, the public types match too
AscendingRegistrationMatches ==
    (mpc = "ran" /\ \A a, b \in 1..Len(tpublic) : a < b => tpublic[a] < tpublic[b]) =>
        \A i \in 0..(Len(paramTypes) - 1) : ReceivedOwnType(i)

====
